---- MODULE Spec2Model ----
(***************************************************************************)
(* redaer: the feed-tracking engine of package store (LinkStore,           *)
(* LinkDetails, checkLink, findFeedUrl, checkForArticles) together with    *)
(* the link extractor of package links, as a state machine.                *)
(*                                                                         *)
(* Strings are TLA+ strings; times are integers (seconds), the zero        *)
(* time.Time being 0.  A *LinkDetails pointer is the BaseUrl key of the    *)
(* record in Links.  A goroutine of CheckForUpdates is a worker            *)
(* 1..NumConcurrent with a program counter.                                *)
(***************************************************************************)
EXTENDS Integers, Sequences, FiniteSets, TLC

(***************************************************************************)
(* Bounds of the model.                                                    *)
(***************************************************************************)
MaxNoted == 2
MaxTicks == 1
MaxTags == 1
MaxItems == 2
\* most articles a record holds when the report of main is looked at alone
MaxArticles == 4
\* most links noted when the pool of routines is looked at alone
MaxBatch == 9

(***************************************************************************)
(* Program constants.                                                      *)
(***************************************************************************)
\* store.CheckForUpdates: const NumConcurrent = 8
NumConcurrent == 8
\* feed.go: minCheckDuration = 300.0e9 (nanoseconds), here in seconds
minCheckDuration == 300

\* one routine more than NumConcurrent
WorkersOneMore == 1 .. (NumConcurrent + 1)

Workers == 1..NumConcurrent

(***************************************************************************)
(* package strings, on TLA+ strings.                                       *)
(***************************************************************************)
HasPrefix(s, p) == Len(s) >= Len(p) /\ SubSeq(s, 1, Len(p)) = p

HasSuffix(s, p) == Len(s) >= Len(p) /\ SubSeq(s, Len(s) - Len(p) + 1, Len(s)) = p

Contains(s, p) == \E i \in 1..(Len(s) - Len(p) + 1) : SubSeq(s, i, i + Len(p) - 1) = p

LowerChar(c) ==
    CASE c = "A" -> "a" [] c = "F" -> "f" [] c = "R" -> "r" [] c = "S" -> "s"
      [] c = "D" -> "d" [] c = "E" -> "e" [] c = "L" -> "l" [] c = "T" -> "t"
      [] c = "M" -> "m" [] c = "O" -> "o" [] c = "X" -> "x" [] c = "B" -> "b"
      [] OTHER -> c

RECURSIVE ToLower(_)
ToLower(s) == IF Len(s) = 0 THEN ""
              ELSE LowerChar(SubSeq(s, 1, 1)) \o ToLower(SubSeq(s, 2, Len(s)))

(***************************************************************************)
(* errors.go: LinkError, the nil error, and errors of other packages       *)
(* (net/http, net/url, encoding/xml), which are not *LinkError.            *)
(***************************************************************************)
NilError == [kind |-> "nil", Msg |-> "", Transient |-> FALSE]

OtherError(msg) == [kind |-> "other", Msg |-> msg, Transient |-> FALSE]

MkError(msg) == [kind |-> "LinkError", Msg |-> msg, Transient |-> FALSE]

MkTransientError(msg) == [kind |-> "LinkError", Msg |-> msg, Transient |-> TRUE]

IsTransient(err) == IF err.kind = "LinkError" THEN err.Transient ELSE FALSE

(***************************************************************************)
(* net/url as forceAbsolute uses it.  The URL strings of the model are     *)
(* "http://<host><path>", "/<path>", "<path>", "" and the strings of        *)
(* InvalidUrls, whose escape "%zz" url.Parse rejects.                      *)
(***************************************************************************)
InvalidUrls == {"%zz", "%zzfeed"}

urlParseFails(s) == s \in InvalidUrls

IsAbs(s) == HasPrefix(s, "http://")

\* index of the first c in s at or after i, or Len(s) + 1
RECURSIVE IndexFrom(_, _, _)
IndexFrom(s, c, i) ==
    IF i > Len(s) THEN Len(s) + 1
    ELSE IF SubSeq(s, i, i) = c THEN i
    ELSE IndexFrom(s, c, i + 1)

\* index of the last c in s at or before i, or 0
RECURSIVE LastIndexFrom(_, _, _)
LastIndexFrom(s, c, i) ==
    IF i < 1 THEN 0
    ELSE IF SubSeq(s, i, i) = c THEN i
    ELSE LastIndexFrom(s, c, i - 1)

\* index of the first "/" after the authority of an absolute URL, or Len+1
PathStart(b) == IndexFrom(b, "/", 8)

SchemeHost(b) == SubSeq(b, 1, PathStart(b) - 1)

UrlPath(b) == SubSeq(b, PathStart(b), Len(b))

\* the path up to and including its last "/"
DirOf(p) ==
    LET last == LastIndexFrom(p, "/", Len(p))
    IN  IF last = 0 THEN "/" ELSE SubSeq(p, 1, last)

ResolveReference(base, ref) ==
    IF IsAbs(ref) THEN ref
    ELSE IF ref = "" THEN base
    ELSE IF HasPrefix(ref, "/") THEN SchemeHost(base) \o ref
    ELSE SchemeHost(base) \o DirOf(UrlPath(base)) \o ref

forceAbsolute(base, maybeRel) ==
    IF urlParseFails(maybeRel) THEN [url |-> "", err |-> OtherError("url.Parse")]
    ELSE IF urlParseFails(base) THEN [url |-> "", err |-> OtherError("url.Parse")]
    ELSE [url |-> ResolveReference(base, maybeRel), err |-> NilError]

(***************************************************************************)
(* links/htmlextract.go.  A page is the sequence of its A and LINK start   *)
(* tags, and whether the tokenizer ends with an error other than EOF.      *)
(* href and attr are <<>> (attribute absent) or <<value>>; attr is the     *)
(* title attribute of an A tag and the type attribute of a LINK tag;       *)
(* closed says that the end tag of the anchor comes before EOF.            *)
(***************************************************************************)
Tag(name, href, text, attr, closed) ==
    [name |-> name, href |-> href, text |-> text, attr |-> attr, closed |-> closed]

TagKinds ==
    { Tag("a", <<"/feed.xml">>, "RSS Feed", <<>>, TRUE),
      Tag("a", <<"/about">>, "About", <<>>, TRUE),
      Tag("link", <<"">>, "", <<"application/atom+xml">>, TRUE),
      Tag("a", <<>>, "Feed", <<>>, TRUE),
      Tag("a", <<"%zzfeed">>, "", <<"Atom">>, TRUE),
      Tag("a", <<"/rss.xml">>, "rss", <<>>, FALSE) }

Pages == { [tags |-> t, err |-> e] :
             t \in UNION { [1..n -> TagKinds] : n \in 0..MaxTags }, e \in BOOLEAN }

Link(title, url) == [Title |-> title, Url |-> url]

\* (Link, bool)
checkForLINK(tok) ==
    IF tok.name /= "link" THEN [lnk |-> Link("", ""), ok |-> FALSE]
    ELSE IF tok.href = <<>> THEN [lnk |-> Link("", ""), ok |-> FALSE]
    ELSE [lnk |-> Link(IF tok.attr /= <<>> THEN tok.attr[1] ELSE "Some Link", tok.href[1]),
          ok |-> TRUE]

\* ([]Link, error)
checkForAnchor(startTok, links) ==
    IF startTok.name /= "a" THEN [links |-> links, err |-> NilError]
    ELSE IF startTok.href = <<>> THEN [links |-> links, err |-> NilError]
    ELSE IF ~startTok.closed
         THEN [links |-> links, err |-> OtherError("EOF while parsing anchor body.")]
    ELSE IF startTok.text = ""
         THEN IF startTok.attr /= <<>>
              THEN [links |-> Append(links, Link(startTok.attr[1], startTok.href[1])),
                    err |-> NilError]
              ELSE [links |-> links, err |-> NilError]
    ELSE [links |-> Append(links, Link(startTok.text, startTok.href[1])), err |-> NilError]

checkTag(startTok, links) ==
    IF startTok.name = "a" THEN checkForAnchor(startTok, links)
    ELSE IF startTok.name = "link"
         THEN LET r == checkForLINK(startTok)
              IN  [links |-> IF r.ok THEN Append(links, r.lnk) ELSE links, err |-> NilError]
    ELSE [links |-> links, err |-> NilError]

RECURSIVE ExtractFrom(_, _, _)
ExtractFrom(page, i, rv) ==
    IF i > Len(page.tags)
    THEN [links |-> rv,
          err |-> IF page.err THEN OtherError("tokenizer") ELSE NilError]
    ELSE LET r == checkTag(page.tags[i], rv)
         IN  IF r.err /= NilError THEN r
             ELSE ExtractFrom(page, i + 1, r.links)

Extract(page) == ExtractFrom(page, 1, <<>>)

(***************************************************************************)
(* feed.go: feed discovery.  A response is a connection error or a status  *)
(* with the Content-type header values and the local name of the body's    *)
(* first start element (<<>>: the body has none).                          *)
(***************************************************************************)
ConnError == [err |-> TRUE, status |-> 0, ct |-> <<>>, root |-> <<>>]

Resp(status, ct, root) == [err |-> FALSE, status |-> status, ct |-> ct, root |-> root]

FeedResponses ==
    { ConnError,
      Resp(404, <<>>, <<>>),
      Resp(200, <<"application/rss+xml; charset=utf-8">>, <<"rss">>),
      Resp(200, <<"application/rss+xml; charset=utf-8">>, <<"html">>),
      Resp(200, <<"text/html">>, <<"feed">>),
      Resp(200, <<"text/xml">>, <<>>) }

\* what a server answers to the request of checkForArticles
FetchResponses ==
    { ConnError,
      Resp(404, <<>>, <<>>),
      Resp(200, <<"application/rss+xml; charset=utf-8">>, <<"rss">>),
      Resp(200, <<"application/rss+xml; charset=utf-8">>, <<"html">>),
      Resp(200, <<"text/xml">>, <<>>) }

feedHints == <<"rss", "atom", "feed">>

urlSuffixes == <<"atom.xml", "rss.xml", "feed.xml", "feed=rss2", "feed=atom", "feed=rss", "feed">>

namedLikeFeedLink(link) ==
    LET t == ToLower(link.Title)
        u == ToLower(link.Url)
    IN  \/ \E c \in 1..Len(feedHints) : Contains(t, feedHints[c])
        \/ \E c \in 1..Len(urlSuffixes) : u = urlSuffixes[c] \/ HasSuffix(u, urlSuffixes[c])

contentTypes ==
    <<"text/xml", "text/plain", "application/xml", "application/rss+xml", "application/atom+xml">>

validFeedContentType(ct) ==
    \E c \in 1..Len(ct) : \E p \in 1..Len(contentTypes) : HasPrefix(ct[c], contentTypes[p])

\* the ArticleParser for a root element, "nil" when there is none
parseFunctionForFeed(root) ==
    IF root = "rss" THEN "feedParser"
    ELSE IF root = "feed" THEN "feedParser"
    ELSE IF root = "RDF" THEN "feedParser"
    ELSE "nil"

\* firstStartElement fails when the body has no start element
recognizedFeedFormat(body) ==
    IF body /= <<>> THEN parseFunctionForFeed(body[1]) /= "nil" ELSE FALSE

\* (*http.Response, error); resp is what the server answers to the GET
makeFeedRequest(baseUrl, reqUrl, resp) ==
    LET abs == forceAbsolute(baseUrl, reqUrl)
    IN  IF abs.err /= NilError THEN [ok |-> FALSE, err |-> abs.err]
        ELSE IF resp.err THEN [ok |-> FALSE, err |-> OtherError("Get")]
        ELSE IF resp.status /= 200 THEN [ok |-> FALSE, err |-> MkError("Bad response")]
        ELSE [ok |-> TRUE, err |-> NilError]

\* (url string, ok bool)
checkForFeedUrl(baseUrl, link, resp) ==
    IF ~namedLikeFeedLink(link) THEN [url |-> "", ok |-> FALSE]
    ELSE IF ~makeFeedRequest(baseUrl, link.Url, resp).ok THEN [url |-> "", ok |-> FALSE]
    ELSE IF validFeedContentType(resp.ct) /\ recognizedFeedFormat(resp.root)
         THEN [url |-> link.Url, ok |-> TRUE]
    ELSE [url |-> "", ok |-> FALSE]

(***************************************************************************)
(* feed.go: the feed parser.  The parser reads the feed as a stream: each  *)
(* read yields the next item/entry element or the end of the stream.  An   *)
(* element is its titles, its link (text of <link>, or the href attribute  *)
(* of an Atom <link>; <<>>: none), the text of its date element (<<>>:     *)
(* none) and whether a closing tag inside it does not match.               *)
(***************************************************************************)
Item(entry, titles, link, date, mismatch) ==
    [entry |-> entry, titles |-> titles, link |-> link, date |-> date, mismatch |-> mismatch]

Items ==
    { Item(FALSE, <<"A">>, <<"http://a/1">>, <<"2006-1-2">>, FALSE),
      Item(FALSE, <<"B", "B">>, <<"/2">>, <<"01 Jan 06 00:00 UTC">>, FALSE),
      Item(TRUE, <<"C">>, <<"%zz">>, <<"2006-1-2">>, FALSE),
      Item(FALSE, <<"D">>, <<"/4">>, <<"bogus">>, FALSE),
      Item(FALSE, <<"F">>, <<"/6">>, <<>>, TRUE) }

\* the zero time.Time
ZeroTime == 0

formats == <<"RFC822", "RFC822Z", "RFC1123", "RFC1123Z", "RFC3339", "2006-1-2">>

\* time.Parse on the date texts of the model: (time, ok)
timeParse(format, text) ==
    IF format = "RFC822" /\ text = "01 Jan 06 00:00 UTC" THEN [tm |-> 1, ok |-> TRUE]
    ELSE IF format = "2006-1-2" /\ text = "2006-1-2" THEN [tm |-> 2, ok |-> TRUE]
    ELSE [tm |-> ZeroTime, ok |-> FALSE]

RECURSIVE parseTimeFrom(_, _)
parseTimeFrom(accum, f) ==
    IF f > Len(formats) THEN [tm |-> ZeroTime, err |-> MkError("Could not parse time")]
    ELSE LET r == timeParse(formats[f], accum)
         IN  IF r.ok THEN [tm |-> r.tm, err |-> NilError]
             ELSE parseTimeFrom(accum, f + 1)

parseTime(accum) == parseTimeFrom(accum, 1)

Article(url, title, pubDate) == [Url |-> url, Title |-> title, PubDate |-> pubDate]

RECURSIVE Concat(_)
Concat(ss) == IF ss = <<>> THEN "" ELSE ss[1] \o Concat(Tail(ss))

\* (Article, error)
genericExtractArticle(item, looksLikeAtom) ==
    IF item.mismatch
    THEN [art |-> Article("", "", ZeroTime), err |-> OtherError("XML syntax error")]
    ELSE IF looksLikeAtom /\ item.link = <<>>
    THEN [art |-> Article("", "", ZeroTime),
          err |-> MkError("Could not find HREF attribute for ENTRY LINK.")]
    ELSE LET url == IF item.link = <<>> THEN "" ELSE item.link[1]
             tm  == IF item.date = <<>> THEN [tm |-> ZeroTime, err |-> NilError]
                    ELSE parseTime(item.date[1])
         IN  IF tm.err /= NilError
             THEN [art |-> Article(url, Concat(item.titles), ZeroTime), err |-> tm.err]
             ELSE [art |-> Article(url, Concat(item.titles), tm.tm), err |-> NilError]

(***************************************************************************)
(* store.go: ArticleArray as sort.Interface, and sort.Sort, which for      *)
(* fewer than 12 elements is an insertion sort driven by Less and Swap.    *)
(***************************************************************************)
\* Less with the operands of Before exchanged
LessAfter(aa, i, j) == aa[j].PubDate < aa[i].PubDate

Less(aa, i, j) == aa[i].PubDate < aa[j].PubDate

Swap(aa, i, j) == [aa EXCEPT ![i] = aa[j], ![j] = aa[i]]

RECURSIVE insertDown(_, _)
insertDown(aa, j) ==
    IF j > 1 /\ Less(aa, j, j - 1) THEN insertDown(Swap(aa, j, j - 1), j - 1) ELSE aa

RECURSIVE insertionSort(_, _)
insertionSort(aa, i) ==
    IF i > Len(aa) THEN aa ELSE insertionSort(insertDown(aa, i), i + 1)

sortSort(aa) == insertionSort(aa, 2)

(***************************************************************************)
(* store.go: the store, the main goroutine and the worker goroutines.      *)
(***************************************************************************)
VARIABLES
    Links,      \* LinkStore.Links: BaseUrl -> LinkDetails
    noted,      \* LinkStore.noted
    now,        \* time.Now()
    loaded,     \* the store was decoded by Load from an earlier Save
    mainpc,     \* where the main goroutine is: "noting", "feeding", "waiting", "returned",
                \* "reported"
    sent,       \* CheckForUpdates: entries of noted already sent on linkIn
    linkIn,     \* the buffered channel linkIn
    closed,     \* linkIn is closed
    acks,       \* number of values buffered in the channel acks
    got,        \* CheckForUpdates: acks received so far
    wpc,        \* per worker: "recv", "check", "probe", "fetch", "abs", "ack", "exit"
    wld,        \* per worker: the record checkLink works on ("": none)
    wloc,       \* per worker: the locals of findFeedUrl and checkForArticles
    hist,       \* per worker: what this call of checkLink has done so far
    checked,    \* per BaseUrl: calls of checkLink acknowledged in this CheckForUpdates
    crashed,    \* a goroutine panicked: the process is gone
    reported,   \* what the report loop of main has printed in this run
    seen        \* the articles the report loops of the earlier runs have printed

vars == <<Links, noted, now, loaded, mainpc, sent, linkIn, closed, acks, got,
          wpc, wld, wloc, hist, checked, crashed, reported, seen>>

LinkIsNew == "LinkIsNew"
LinkNoFeedFound == "LinkNoFeedFound"
LinkTransientError == "LinkTransientError"
LinkHasFeed == "LinkHasFeed"
LinkIgnore == "LinkIgnore"

BaseUrls == {"http://a/", "http://b/blog/atom.xml"}

Titles == {"Blog"}

\* the bookmarks of the runs in which the routines take turns
SeqUrls == {"http://b/blog/atom.xml"}

StartClock == 4 * minCheckDuration

TickStep == minCheckDuration

\* &LinkDetails{BaseUrl: url, State: LinkIsNew, Articles: make([]Article, 0), Title: title}
NewLinkDetails(url, title) ==
    [BaseUrl |-> url, State |-> LinkIsNew, FeedUrl |-> "", LastError |-> NilError,
     Title |-> title, LastRead |-> ZeroTime, LastChecked |-> ZeroTime, Articles |-> <<>>]

\* links: the links findFeedUrl has still to try
NoLocals == [links |-> <<>>, moment |-> ZeroTime, rng |-> <<>>]

\* page: the answer findFeedUrl got for the base page (error and status);
\* parsed: the articles the parser had appended when it failed
NoPage == [err |-> FALSE, status |-> 0]

NoHist == [entryState |-> "", disc |-> FALSE, refr |-> FALSE, out |-> "", before |-> <<>>,
           moved |-> FALSE, page |-> NoPage, parsed |-> 0]

\* newStore(), before any goroutine exists
Init ==
    /\ Links = <<>>
    /\ noted = <<>>
    /\ now = StartClock
    /\ loaded = FALSE
    /\ mainpc = "noting"
    /\ sent = 0
    /\ linkIn = <<>>
    /\ closed = FALSE
    /\ acks = 0
    /\ got = 0
    /\ wpc = [w \in Workers |-> "exit"]
    /\ wld = [w \in Workers |-> ""]
    /\ wloc = [w \in Workers |-> NoLocals]
    /\ hist = [w \in Workers |-> NoHist]
    /\ checked = [u \in BaseUrls |-> 0]
    /\ crashed = FALSE
    /\ reported = <<>>
    /\ seen = {}

mainVars == <<mainpc, sent, linkIn, closed, acks, got>>
workerVars == <<wpc, wld, wloc, hist>>

\* time passes: between two runs of the program, and while a routine waits
\* for the answer to a feed request
Tick ==
    /\ ~crashed
    /\ \/ mainpc = "noting" /\ noted = <<>>
       \/ \E w \in Workers : wpc[w] = "fetch"
    /\ now < StartClock + MaxTicks * TickStep
    /\ now' = now + TickStep
    /\ UNCHANGED <<Links, noted, loaded, mainVars, workerVars, checked, crashed, reported, seen>>

\* InterestedIn without the test of existence
InterestedInOverwrite(url, title) ==
    /\ ~crashed
    /\ mainpc = "noting"
    /\ Len(noted) < MaxNoted
    /\ Links' = [u \in DOMAIN Links \cup {url} |->
                    IF u = url THEN NewLinkDetails(url, title) ELSE Links[u]]
    /\ noted' = Append(noted, url)
    /\ UNCHANGED <<now, loaded, mainVars, workerVars, checked, crashed, reported, seen>>

InterestedIn(url, title) ==
    /\ ~crashed
    /\ mainpc = "noting"
    /\ Len(noted) < MaxNoted
    /\ Links' = IF url \in DOMAIN Links THEN Links
                ELSE (url :> NewLinkDetails(url, title)) @@ Links
    /\ noted' = Append(noted, url)
    /\ UNCHANGED <<now, loaded, mainVars, workerVars, checked, crashed, reported, seen>>

\* CheckForUpdates up to the start of the feeding loop: the channels are made
\* and the NumConcurrent routines started
StartCheckForUpdates ==
    /\ ~crashed
    /\ mainpc = "noting"
    /\ mainpc' = "feeding"
    /\ sent' = 0
    /\ linkIn' = <<>>
    /\ closed' = FALSE
    /\ acks' = 0
    /\ got' = 0
    /\ wpc' = [w \in Workers |-> "recv"]
    /\ wld' = [w \in Workers |-> ""]
    /\ wloc' = [w \in Workers |-> NoLocals]
    /\ hist' = [w \in Workers |-> NoHist]
    /\ checked' = [u \in BaseUrls |-> 0]
    /\ UNCHANGED <<Links, noted, now, loaded, crashed, reported, seen>>

\* linkIn <- store.Links[base]; blocks while the buffer holds NumConcurrent values
FeedLink ==
    /\ ~crashed
    /\ mainpc = "feeding"
    /\ sent < Len(noted)
    /\ Len(linkIn) < NumConcurrent
    /\ linkIn' = Append(linkIn, noted[sent + 1])
    /\ sent' = sent + 1
    /\ UNCHANGED <<Links, noted, now, loaded, mainpc, closed, acks, got, workerVars,
                   checked, crashed, reported, seen>>

\* close(linkIn)
CloseLinkIn ==
    /\ ~crashed
    /\ mainpc = "feeding"
    /\ sent = Len(noted)
    /\ closed' = TRUE
    /\ mainpc' = "waiting"
    /\ UNCHANGED <<Links, noted, now, loaded, sent, linkIn, acks, got, workerVars,
                   checked, crashed, reported, seen>>

\* <-acks
ReceiveAck ==
    /\ ~crashed
    /\ mainpc = "waiting"
    /\ got < Len(noted)
    /\ acks > 0
    /\ acks' = acks - 1
    /\ got' = got + 1
    /\ UNCHANGED <<Links, noted, now, loaded, mainpc, sent, linkIn, closed, workerVars,
                   checked, crashed, reported, seen>>

\* CheckForUpdates returns
ReturnFromCheck ==
    /\ ~crashed
    /\ mainpc = "waiting"
    /\ got = Len(noted)
    /\ mainpc' = "returned"
    /\ UNCHANGED <<Links, noted, now, loaded, sent, linkIn, closed, acks, got, workerVars,
                   checked, crashed, reported, seen>>

\* UnreadArticles: the loop over ld.Articles
RECURSIVE unreadFrom(_, _, _)
unreadFrom(ld, i, rv) ==
    IF i > Len(ld.Articles) THEN rv
    ELSE unreadFrom(ld, i + 1, IF ld.LastRead < ld.Articles[i].PubDate
                               THEN Append(rv, ld.Articles[i]) ELSE rv)

\* UnreadArticles with After in place of Before's strictness
UnreadArticlesNotBefore(ld) ==
    [ld |-> ld, rv |-> SelectSeq(ld.Articles, LAMBDA art : ld.LastRead <= art.PubDate)]

\* ld.UnreadArticles(): the record as the call leaves it, and the value returned
UnreadArticles(ld) == [ld |-> ld, rv |-> unreadFrom(ld, 1, <<>>)]

\* MarkAllAsRead: the loop over ld.Articles
RECURSIVE latestFrom(_, _, _)
latestFrom(arts, i, latest) ==
    IF i > Len(arts) THEN latest
    ELSE latestFrom(arts, i + 1, IF arts[i].PubDate > latest THEN arts[i].PubDate ELSE latest)

\* MarkAllAsRead without the test latest.After(ld.LastRead)
MarkAllAsReadAlways(ld) == [ld EXCEPT !.LastRead = latestFrom(ld.Articles, 1, ZeroTime)]

\* ld.MarkAllAsRead()
MarkAllAsRead(ld) ==
    LET latest == latestFrom(ld.Articles, 1, ZeroTime)
    IN  IF latest > ld.LastRead THEN [ld EXCEPT !.LastRead = latest] ELSE ld

\* one thing main prints: the title, then the error or the unread articles
Printed(title, err, unread) == [Title |-> title, Error |-> err, Unread |-> unread]

\* main: the loop over lnks after CheckForUpdates
RECURSIVE reportFrom(_, _, _, _)
reportFrom(links, lnks, i, out) ==
    IF i > Len(lnks) THEN [Links |-> links, out |-> out]
    ELSE LET details == links[lnks[i]]
             unread == UnreadArticles(details)
         IN  IF details.State /= LinkHasFeed
             THEN reportFrom(links, lnks, i + 1,
                             IF details.LastError /= NilError
                             THEN Append(out, Printed(details.Title, details.LastError, <<>>))
                             ELSE out)
             ELSE IF Len(unread.rv) = 0
             THEN reportFrom([links EXCEPT ![lnks[i]] = unread.ld], lnks, i + 1, out)
             ELSE reportFrom([links EXCEPT ![lnks[i]] = MarkAllAsRead(unread.ld)], lnks, i + 1,
                             Append(out, Printed(details.Title, NilError, unread.rv)))

\* main, from the return of CheckForUpdates to the call of Save
Report ==
    /\ ~crashed
    /\ mainpc = "returned"
    /\ LET r == reportFrom(Links, noted, 1, <<>>)
       IN  /\ Links' = r.Links
           /\ reported' = r.out
    /\ mainpc' = "reported"
    /\ UNCHANGED <<noted, now, loaded, sent, linkIn, closed, acks, got, workerVars,
                   checked, crashed, seen>>

\* the articles in what main has printed
ArticlesIn(out) ==
    UNION { { out[i].Unread[j] : j \in DOMAIN out[i].Unread } : i \in DOMAIN out }

\* Save and Load with json:"-" on LastRead as well
SaveAndLoadWithoutLastRead ==
    /\ ~crashed
    /\ mainpc = "reported"
    /\ Links' = [u \in DOMAIN Links |->
                    [Links[u] EXCEPT !.LastError = NilError, !.Articles = <<>>,
                                     !.LastRead = ZeroTime]]
    /\ noted' = <<>>
    /\ loaded' = TRUE
    /\ mainpc' = "noting"
    /\ sent' = 0
    /\ linkIn' = <<>>
    /\ closed' = FALSE
    /\ acks' = 0
    /\ got' = 0
    /\ wpc' = [w \in Workers |-> "exit"]
    /\ wld' = [w \in Workers |-> ""]
    /\ wloc' = [w \in Workers |-> NoLocals]
    /\ hist' = [w \in Workers |-> NoHist]
    /\ checked' = [u \in BaseUrls |-> 0]
    /\ reported' = <<>>
    /\ seen' = seen \cup ArticlesIn(reported)
    /\ UNCHANGED <<now, crashed>>

\* Save at the end of main, and Load at the start of the next run of the
\* program: LastError and Articles carry json:"-", noted and client are unexported
SaveAndLoad ==
    /\ ~crashed
    /\ mainpc = "reported"
    /\ Links' = [u \in DOMAIN Links |->
                    [Links[u] EXCEPT !.LastError = NilError, !.Articles = <<>>]]
    /\ noted' = <<>>
    /\ loaded' = TRUE
    /\ mainpc' = "noting"
    /\ sent' = 0
    /\ linkIn' = <<>>
    /\ closed' = FALSE
    /\ acks' = 0
    /\ got' = 0
    /\ wpc' = [w \in Workers |-> "exit"]
    /\ wld' = [w \in Workers |-> ""]
    /\ wloc' = [w \in Workers |-> NoLocals]
    /\ hist' = [w \in Workers |-> NoHist]
    /\ checked' = [u \in BaseUrls |-> 0]
    /\ reported' = <<>>
    /\ seen' = seen \cup ArticlesIn(reported)
    /\ UNCHANGED <<now, crashed>>

\* Between two runs the user edits the saved store and marks a link as
\* LinkIgnore (README: "edit the JSON file to mark a link as Ignore")
UserIgnores(u) ==
    /\ ~crashed
    /\ loaded
    /\ mainpc = "noting"
    /\ noted = <<>>
    /\ u \in DOMAIN Links
    /\ Links[u].State /= LinkIgnore
    /\ Links' = [Links EXCEPT ![u].State = LinkIgnore]
    /\ UNCHANGED <<noted, now, loaded, mainVars, workerVars, checked, crashed, reported, seen>>

(***************************************************************************)
(* store.go and feed.go: the steps of checkLink on a record.               *)
(***************************************************************************)
ErrorOccurred(link, err) == [link EXCEPT !.State = LinkTransientError, !.LastError = err]

\* case LinkTransientError without the test of FeedUrl
checkLinkTransientErrorToNew(ld) == [ld EXCEPT !.State = LinkIsNew]

\* checkLink, case LinkTransientError
checkLinkTransientError(ld) ==
    IF ld.FeedUrl = "" THEN [ld EXCEPT !.State = LinkIsNew]
    ELSE [ld EXCEPT !.State = LinkHasFeed]

\* checkLink, case LinkIsNew, once findFeedUrl has returned (feedUrl, err):
\* the record and stateNeedsCheck
checkLinkIsNew(ld, feedUrl, err) ==
    IF IsTransient(err) THEN [ld |-> ErrorOccurred(ld, err), again |-> FALSE]
    ELSE IF err /= NilError THEN [ld |-> [ld EXCEPT !.State = LinkNoFeedFound], again |-> FALSE]
    ELSE [ld |-> [ld EXCEPT !.State = LinkHasFeed, !.FeedUrl = feedUrl], again |-> TRUE]

PageResponses == { ConnError, Resp(200, <<"text/html">>, <<"html">>),
                   Resp(404, <<>>, <<>>), Resp(503, <<>>, <<>>) }

\* what links.Extract returns for the bodies of the pages
Extracted == { Extract(page) : page \in Pages }

NoBody == [links |-> <<>>, err |-> NilError]

\* findFeedUrl with the case resp.StatusCode >= 500 left to the default case
findFeedUrlGetNoServerCase(ld, resp, ex) ==
    IF resp.err
    THEN [ret |-> TRUE, err |-> MkTransientError("findFeedUrl"), links |-> <<>>]
    ELSE IF resp.status = 200
    THEN IF ex.err /= NilError /\ Len(ex.links) = 0
         THEN [ret |-> TRUE, err |-> MkTransientError("findFeedUrl"), links |-> <<>>]
         ELSE [ret |-> FALSE, err |-> NilError, links |-> ex.links]
    ELSE [ret |-> TRUE, err |-> MkError("Error reading"), links |-> <<>>]

\* findFeedUrl up to the loop over the links, ex being links.Extract(resp.Body):
\* ret says that it returns err
findFeedUrlGet(ld, resp, ex) ==
    IF resp.err
    THEN [ret |-> TRUE, err |-> MkTransientError("findFeedUrl"), links |-> <<>>]
    ELSE IF resp.status = 200
    THEN IF ex.err /= NilError /\ Len(ex.links) = 0
         THEN [ret |-> TRUE, err |-> MkTransientError("findFeedUrl"), links |-> <<>>]
         ELSE [ret |-> FALSE, err |-> NilError, links |-> ex.links]
    ELSE IF resp.status >= 500
    THEN [ret |-> TRUE, err |-> MkTransientError("findFeedUrl"), links |-> <<>>]
    ELSE [ret |-> TRUE, err |-> MkError("Error reading"), links |-> <<>>]

\* checkForArticles with line 186 moved below the rate limit
checkForArticlesBeginLate(link, moment) ==
    LET timeSinceLast == moment - link.LastChecked
    IN  IF timeSinceLast < minCheckDuration THEN [link |-> link, skip |-> TRUE]
        ELSE [link |-> [link EXCEPT !.Articles = <<>>], skip |-> FALSE]

\* checkForArticles up to the rate limit: the record, and whether it returns
checkForArticlesBegin(link, moment) ==
    LET cleared == [link EXCEPT !.Articles = <<>>]
        timeSinceLast == moment - link.LastChecked
    IN  [link |-> cleared, skip |-> timeSinceLast < minCheckDuration]

\* checkForArticles with an error recorded when no parser is found
checkForArticlesFetchNoParserError(link, resp) ==
    LET req == makeFeedRequest(link.BaseUrl, link.FeedUrl, resp)
    IN  IF ~req.ok THEN [link |-> ErrorOccurred(link, req.err), out |-> "fetch_failed"]
        ELSE IF resp.root = <<>>
        THEN [link |-> ErrorOccurred(link, MkError("No start element found.")),
              out |-> "no_start"]
        ELSE IF parseFunctionForFeed(resp.root[1]) = "nil"
        THEN [link |-> ErrorOccurred(link, MkError("No parser found.")), out |-> "no_parser"]
        ELSE [link |-> link, out |-> "parse"]

\* checkForArticles from makeFeedRequest to the choice of the parser
checkForArticlesFetch(link, resp) ==
    LET req == makeFeedRequest(link.BaseUrl, link.FeedUrl, resp)
    IN  IF ~req.ok THEN [link |-> ErrorOccurred(link, req.err), out |-> "fetch_failed"]
        ELSE IF resp.root = <<>>
        THEN [link |-> ErrorOccurred(link, MkError("No start element found.")),
              out |-> "no_start"]
        ELSE IF parseFunctionForFeed(resp.root[1]) = "nil"
        THEN [link |-> link, out |-> "no_parser"]
        ELSE [link |-> link, out |-> "parse"]

Feeds == UNION { [1..n -> Items] : n \in 0..MaxItems }

\* feedParser from the j-th item or entry element of the feed on: the record
\* with the articles appended so far, and the error
RECURSIVE feedParserFrom(_, _, _)
feedParserFrom(link, feed, j) ==
    IF j > Len(feed) THEN [link |-> link, err |-> NilError]
    ELSE LET r == genericExtractArticle(feed[j], feed[j].entry)
         IN  IF r.err /= NilError THEN [link |-> link, err |-> r.err]
             ELSE feedParserFrom([link EXCEPT !.Articles = Append(link.Articles, r.art)],
                                 feed, j + 1)

\* what the parser appends for a feed, and the error it returns
Parse(feed) == feedParserFrom([Articles |-> <<>>], feed, 1)

\* what the parser does on the bodies of the feeds
Parsed == { Parse(feed) : feed \in Feeds }

\* feedParser on a feed for which it appends parse.link.Articles and returns
\* parse.err
feedParser(link, parse) ==
    [link |-> [link EXCEPT !.Articles = link.Articles \o parse.link.Articles],
     err |-> parse.err]

\* checkForArticles without line 234 on the error path
checkForArticlesParsedKeep(r) ==
    IF r.err = NilError
    THEN [link |-> IF Len(r.link.Articles) > 1
                   THEN [r.link EXCEPT !.Articles = sortSort(r.link.Articles)]
                   ELSE r.link,
          out |-> "abs"]
    ELSE [link |-> ErrorOccurred(r.link, r.err), out |-> "parse_error"]

\* checkForArticles once pfn(ring, first, link) has returned, r being the
\* record as the parser left it and the error: the sort, or the error path
checkForArticlesParsed(r) ==
    IF r.err = NilError
    THEN [link |-> IF Len(r.link.Articles) > 1
                   THEN [r.link EXCEPT !.Articles = sortSort(r.link.Articles)]
                   ELSE r.link,
          out |-> "abs"]
    ELSE [link |-> [ErrorOccurred(r.link, r.err) EXCEPT !.Articles = <<>>],
          out |-> "parse_error"]

\* the loop over link.Articles without line 226 on the error path
RECURSIVE absoluteLoopKeep(_, _, _)
absoluteLoopKeep(link, rng, i) ==
    IF i > Len(rng) THEN [link |-> link, out |-> "ok"]
    ELSE LET r == forceAbsolute(link.BaseUrl, rng[i].Url)
         IN  IF r.err = NilError
             THEN IF i > Len(link.Articles) THEN [link |-> link, out |-> "panic"]
                  ELSE absoluteLoopKeep([link EXCEPT !.Articles[i].Url = r.url], rng, i + 1)
             ELSE [link |-> ErrorOccurred(link, r.err), out |-> "abs_error"]

\* the loop "for i, art := range link.Articles" from index i on, rng being the
\* slice the range statement read when the loop began; link.Articles[i] is
\* out of range when link.Articles has become shorter than rng
RECURSIVE absoluteLoop(_, _, _)
absoluteLoop(link, rng, i) ==
    IF i > Len(rng) THEN [link |-> link, out |-> "ok"]
    ELSE LET r == forceAbsolute(link.BaseUrl, rng[i].Url)
         IN  IF r.err = NilError
             THEN IF i > Len(link.Articles) THEN [link |-> link, out |-> "panic"]
                  ELSE absoluteLoop([link EXCEPT !.Articles[i].Url = r.url], rng, i + 1)
             ELSE [link |-> [ErrorOccurred(link, r.err) EXCEPT !.Articles = <<>>],
                   out |-> "abs_error"]

\* checkForArticles with line 230 run on every path out of the loop
checkForArticlesAbsoluteStamp(link, rng, moment) ==
    LET r == absoluteLoop(link, rng, 1)
    IN  IF r.out = "panic" THEN r
        ELSE [link |-> [r.link EXCEPT !.LastChecked = moment], out |-> r.out]

\* checkForArticles: the loop over the articles and the update of LastChecked
checkForArticlesAbsolute(link, rng, moment) ==
    LET r == absoluteLoop(link, rng, 1)
    IN  IF r.out = "ok" THEN [link |-> [r.link EXCEPT !.LastChecked = moment], out |-> "ok"]
        ELSE r

(***************************************************************************)
(* store.go: checkLinkRoutine.  The routines are interchangeable, so the   *)
(* model lets the lowest-numbered routine waiting on linkIn take the next  *)
(* value, and the routines leave the closed channel highest number first.  *)
(***************************************************************************)
Goto(w, pc) == wpc' = [wpc EXCEPT ![w] = pc]

Store(u, link) == Links' = [Links EXCEPT ![u] = link]

\* ld := <-linkIn, and the call of checkLink
WorkerReceive(w) ==
    /\ ~crashed
    /\ wpc[w] = "recv"
    /\ linkIn /= <<>>
    /\ \A v \in Workers : v < w => wpc[v] /= "recv"
    /\ linkIn' = Tail(linkIn)
    /\ wld' = [wld EXCEPT ![w] = Head(linkIn)]
    /\ hist' = [hist EXCEPT ![w] = [NoHist EXCEPT !.entryState = Links[Head(linkIn)].State]]
    /\ Goto(w, "check")
    /\ UNCHANGED <<Links, noted, now, loaded, mainpc, sent, closed, acks, got, wloc,
                   checked, crashed, reported, seen>>

\* range over the closed and drained linkIn ends
WorkerExit(w) ==
    /\ ~crashed
    /\ wpc[w] = "recv"
    /\ linkIn = <<>>
    /\ closed
    /\ \A v \in Workers : v > w => wpc[v] /= "recv"
    /\ Goto(w, "exit")
    /\ UNCHANGED <<Links, noted, now, loaded, mainVars, wld, wloc, hist, checked, crashed, reported, seen>>

\* checkLink: case LinkTransientError
CheckTransientError(w) ==
    /\ ~crashed
    /\ wpc[w] = "check"
    /\ Links[wld[w]].State = LinkTransientError
    /\ Store(wld[w], checkLinkTransientError(Links[wld[w]]))
    /\ UNCHANGED <<noted, now, loaded, mainVars, workerVars, checked, crashed, reported, seen>>

\* checkLink with a case LinkNoFeedFound that goes back to LinkIsNew
CheckNothingRetry(w) ==
    /\ ~crashed
    /\ wpc[w] = "check"
    /\ Links[wld[w]].State \in {LinkNoFeedFound, LinkIgnore}
    /\ IF Links[wld[w]].State = LinkNoFeedFound
       THEN /\ Store(wld[w], [Links[wld[w]] EXCEPT !.State = LinkIsNew])
            /\ wpc' = wpc
       ELSE /\ Goto(w, "ack")
            /\ Links' = Links
    /\ UNCHANGED <<noted, now, loaded, mainVars, wld, wloc, hist, checked, crashed, reported, seen>>

\* checkLink with a case LinkIgnore that starts the link over
CheckNothingIgnoreAsNew(w) ==
    /\ ~crashed
    /\ wpc[w] = "check"
    /\ Links[wld[w]].State \in {LinkNoFeedFound, LinkIgnore}
    /\ IF Links[wld[w]].State = LinkIgnore
       THEN /\ Store(wld[w], [Links[wld[w]] EXCEPT !.State = LinkIsNew])
            /\ wpc' = wpc
       ELSE /\ Goto(w, "ack")
            /\ Links' = Links
    /\ UNCHANGED <<noted, now, loaded, mainVars, wld, wloc, hist, checked, crashed, reported, seen>>

\* checkLink: no case for LinkNoFeedFound; case LinkIgnore only logs
CheckNothing(w) ==
    /\ ~crashed
    /\ wpc[w] = "check"
    /\ Links[wld[w]].State \in {LinkNoFeedFound, LinkIgnore}
    /\ Goto(w, "ack")
    /\ UNCHANGED <<Links, noted, now, loaded, mainVars, wld, wloc, hist, checked, crashed, reported, seen>>

\* checkLink: case LinkIsNew, findFeedUrl up to its loop over the links
FindFeedUrl(w, resps, bodies) ==
    /\ ~crashed
    /\ wpc[w] = "check"
    /\ Links[wld[w]].State = LinkIsNew
    /\ \E resp \in resps :
       \E ex \in (IF ~resp.err /\ resp.status = 200 THEN bodies ELSE {NoBody}) :
          LET r == findFeedUrlGet(Links[wld[w]], resp, ex)
          IN  /\ IF r.ret
                 THEN /\ Store(wld[w], checkLinkIsNew(Links[wld[w]], "", r.err).ld)
                      /\ Goto(w, "ack")
                      /\ wloc' = wloc
                 ELSE /\ wloc' = [wloc EXCEPT ![w] = [NoLocals EXCEPT !.links = r.links]]
                      /\ Goto(w, "probe")
                      /\ Links' = Links
              /\ hist' = [hist EXCEPT ![w].disc = TRUE,
                                      ![w].page = [err |-> resp.err, status |-> resp.status]]
    /\ UNCHANGED <<noted, now, loaded, mainVars, wld, checked, crashed, reported, seen>>

\* findFeedUrl: one round of the loop over the links, or its end
CheckForFeedUrl(w, resps) ==
    /\ ~crashed
    /\ wpc[w] = "probe"
    /\ LET ld == Links[wld[w]]
           loc == wloc[w]
       IN  IF loc.links = <<>>
           THEN /\ Store(wld[w], checkLinkIsNew(ld, "",
                        MkTransientError("findFeedUrl")).ld)
                /\ Goto(w, "ack")
                /\ wloc' = wloc
           ELSE \E resp \in resps :
                   LET r == checkForFeedUrl(ld.BaseUrl, Head(loc.links), resp)
                   IN  IF r.ok
                       THEN /\ Store(wld[w], checkLinkIsNew(ld, r.url, NilError).ld)
                            /\ Goto(w, "check")
                            /\ wloc' = [wloc EXCEPT ![w] = NoLocals]
                       ELSE /\ wloc' = [wloc EXCEPT ![w].links = Tail(loc.links)]
                            /\ UNCHANGED <<Links, wpc>>
    /\ UNCHANGED <<noted, now, loaded, mainVars, wld, hist, checked, crashed, reported, seen>>

\* checkLink: case LinkHasFeed, checkForArticles up to the rate limit
CheckForArticles(w) ==
    /\ ~crashed
    /\ wpc[w] = "check"
    /\ Links[wld[w]].State = LinkHasFeed
    /\ LET r == checkForArticlesBegin(Links[wld[w]], now)
       IN  /\ Store(wld[w], r.link)
           /\ IF r.skip
              THEN /\ Goto(w, "ack")
                   /\ wloc' = wloc
                   /\ hist' = [hist EXCEPT ![w].refr = TRUE, ![w].out = "skipped",
                                           ![w].before = Links[wld[w]].Articles]
              ELSE /\ Goto(w, "fetch")
                   /\ wloc' = [wloc EXCEPT ![w] = [NoLocals EXCEPT !.moment = now]]
                   /\ hist' = [hist EXCEPT ![w].refr = TRUE,
                                           ![w].before = Links[wld[w]].Articles]
    /\ UNCHANGED <<noted, now, loaded, mainVars, wld, checked, crashed, reported, seen>>

\* checkForArticles: makeFeedRequest, firstStartElement, parseFunctionForFeed,
\* the parser on the rest of the body and the sort
FetchFeed(w, resps, parses) ==
    /\ ~crashed
    /\ wpc[w] = "fetch"
    /\ \E resp \in resps :
          LET f == checkForArticlesFetch(Links[wld[w]], resp)
          IN  IF f.out /= "parse"
              THEN /\ Store(wld[w], f.link)
                   /\ Goto(w, "ack")
                   /\ hist' = [hist EXCEPT ![w].out = f.out]
                   /\ wloc' = wloc
              ELSE \E parse \in parses :
                      LET p == feedParser(f.link, parse)
                          r == checkForArticlesParsed(p)
                      IN  /\ Store(wld[w], r.link)
                          /\ IF r.out = "abs"
                             THEN /\ Goto(w, "abs")
                                  /\ wloc' = [wloc EXCEPT ![w].rng = r.link.Articles]
                                  /\ hist' = [hist EXCEPT ![w].moved =
                                        (r.link.Articles /= p.link.Articles)]
                             ELSE /\ Goto(w, "ack")
                                  /\ wloc' = wloc
                                  /\ hist' = [hist EXCEPT ![w].out = r.out,
                                        ![w].parsed = Len(p.link.Articles)]
    /\ UNCHANGED <<noted, now, loaded, mainVars, wld, checked, crashed, reported, seen>>

\* checkLink with stateNeedsCheck set when checkForArticles has failed on a url
AbsolutizeAndCheckAgain(w) ==
    /\ ~crashed
    /\ wpc[w] = "abs"
    /\ LET r == checkForArticlesAbsolute(Links[wld[w]], wloc[w].rng, wloc[w].moment)
       IN  IF r.out = "panic"
           THEN /\ crashed' = TRUE
                /\ UNCHANGED <<Links, wpc, hist>>
           ELSE /\ Store(wld[w], r.link)
                /\ Goto(w, IF r.out = "ok" THEN "ack" ELSE "check")
                /\ hist' = [hist EXCEPT ![w].out = r.out]
                /\ crashed' = crashed
    /\ UNCHANGED <<noted, now, loaded, mainVars, wld, wloc, checked, reported, seen>>

\* checkForArticles: the loop over the articles and the update of LastChecked.
\* An index out of range is a panic, which ends the process.
Absolutize(w) ==
    /\ ~crashed
    /\ wpc[w] = "abs"
    /\ LET r == checkForArticlesAbsolute(Links[wld[w]], wloc[w].rng, wloc[w].moment)
       IN  IF r.out = "panic"
           THEN /\ crashed' = TRUE
                /\ UNCHANGED <<Links, wpc, hist>>
           ELSE /\ Store(wld[w], r.link)
                /\ Goto(w, "ack")
                /\ hist' = [hist EXCEPT ![w].out = r.out]
                /\ crashed' = crashed
    /\ UNCHANGED <<noted, now, loaded, mainVars, wld, wloc, checked, reported, seen>>

\* acks <- 1; the channel holds len(store.noted) values, so this never blocks
Acknowledge(w) ==
    /\ ~crashed
    /\ wpc[w] = "ack"
    /\ acks < Len(noted)
    /\ acks' = acks + 1
    /\ checked' = [checked EXCEPT ![wld[w]] = @ + 1]
    /\ Goto(w, "recv")
    /\ wld' = [wld EXCEPT ![w] = ""]
    /\ wloc' = [wloc EXCEPT ![w] = NoLocals]
    /\ hist' = [hist EXCEPT ![w] = NoHist]
    /\ UNCHANGED <<Links, noted, now, loaded, mainpc, sent, linkIn, closed, got, crashed, reported, seen>>

\* the main goroutine of one run of the program
MainStep(urls) ==
    \/ \E url \in urls, title \in Titles : InterestedIn(url, title)
    \/ StartCheckForUpdates
    \/ FeedLink
    \/ CloseLinkIn
    \/ ReceiveAck
    \/ ReturnFromCheck

Idle(w) == wpc[w] \in {"recv", "exit"}

\* the main goroutine is blocked in <-acks
MainWaits == mainpc = "waiting" /\ acks = 0

\* a routine waits on the closed and drained linkIn: it can run to its end
CanExit == closed /\ linkIn = <<>> /\ \E w \in Workers : wpc[w] = "recv"

\* a routine may run: the main goroutine is blocked, and no routine can end
Turn == MainWaits /\ ~CanExit

\* The runs in which the goroutines take turns, each running up to the point
\* where it blocks or ends: the main goroutine runs while it can, a routine
\* that finds linkIn closed and drained ends at once, and a routine takes a
\* record from linkIn only when no other routine is inside checkLink.  The
\* program is run again and again on the saved store, and the servers
\* answer with any response, page and feed of the model.
SeqNext ==
    \/ MainStep(SeqUrls)
    \/ Report
    \/ SaveAndLoad
    \/ \E u \in SeqUrls : UserIgnores(u)
    \/ Tick
    \/ \E w \in Workers : WorkerExit(w)
    \/ MainWaits /\ (\A v \in Workers : Idle(v)) /\ \E w \in Workers : WorkerReceive(w)
    \/ Turn /\ \E w \in Workers : CheckTransientError(w)
    \/ Turn /\ \E w \in Workers : CheckNothing(w)
    \/ Turn /\ \E w \in Workers : FindFeedUrl(w, PageResponses, Extracted)
    \/ Turn /\ \E w \in Workers : CheckForFeedUrl(w, FeedResponses)
    \/ Turn /\ \E w \in Workers : CheckForArticles(w)
    \/ Turn /\ \E w \in Workers : FetchFeed(w, FetchResponses, Parsed)
    \/ Turn /\ \E w \in Workers : Absolutize(w)
    \/ Turn /\ \E w \in Workers : Acknowledge(w)

Spec == Init /\ [][SeqNext]_vars

\* the answers of the servers in the runs that are scheduled freely
SchedPageResponses == { Resp(200, <<"text/html">>, <<"html">>), Resp(404, <<>>, <<>>) }

SchedBodies == { Extract([tags |-> <<Tag("a", <<"/feed.xml">>, "RSS Feed", <<>>, TRUE)>>,
                          err |-> FALSE]) }

SchedFeedResponses == { Resp(200, <<"application/rss+xml; charset=utf-8">>, <<"rss">>) }

SchedFeeds == { feed \in Feeds : Len(feed) = 1 /\ feed[1].link = <<"http://a/1">> }

SchedParsed == { Parse(feed) : feed \in SchedFeeds }

\* One run of the program under every schedule of the goroutines, but for
\* the routines that wait on the closed and drained linkIn: ending is all
\* that is left to them, it changes nothing that another goroutine reads,
\* and so they end before another routine takes its next step.
Next ==
    \/ MainStep(BaseUrls)
    \/ \E w \in Workers : WorkerReceive(w)
    \/ \E w \in Workers : WorkerExit(w)
    \/ ~CanExit /\ \E w \in Workers : CheckTransientError(w)
    \/ ~CanExit /\ \E w \in Workers : CheckNothing(w)
    \/ ~CanExit /\ \E w \in Workers : FindFeedUrl(w, SchedPageResponses, SchedBodies)
    \/ ~CanExit /\ \E w \in Workers : CheckForFeedUrl(w, SchedFeedResponses)
    \/ ~CanExit /\ \E w \in Workers : CheckForArticles(w)
    \/ ~CanExit /\ \E w \in Workers :
                       FetchFeed(w, SchedFeedResponses \cup {ConnError}, SchedParsed)
    \/ ~CanExit /\ \E w \in Workers : Absolutize(w)
    \/ ~CanExit /\ \E w \in Workers : Acknowledge(w)

SpecSched == Init /\ [][Next]_vars

(***************************************************************************)
(* main.go and store.go: what the main goroutine does to the store outside *)
(* CheckForUpdates: InterestedIn on a store that Load has decoded, and the *)
(* report loop with UnreadArticles and MarkAllAsRead on the records that   *)
(* CheckForUpdates has left.                                               *)
(***************************************************************************)
ReadTimes == 0 .. MaxArticles

\* the Articles a refresh leaves: sorted by PubDate (sort.Sort, feed.go:216)
ArticleLists ==
    { [i \in DOMAIN ts |-> Article("http://a/1", "A", ts[i]) ] :
        ts \in { t \in UNION { [1..n -> ReadTimes] : n \in 0..MaxArticles } :
                    \A i \in DOMAIN t : i = 1 \/ t[i - 1] <= t[i] } }

StoreTitles == {"Blog", "News"}

\* the records Load can decode: json:"-" leaves LastError nil and Articles
\* empty; a record that never had a feed has no FeedUrl and was never
\* refreshed or read
SavedDetails(url) ==
    { ld \in [BaseUrl : {url},
              State : {LinkIsNew, LinkNoFeedFound, LinkTransientError, LinkHasFeed, LinkIgnore},
              FeedUrl : {"", "http://a/feed.xml"},
              LastError : {NilError},
              Title : {"Blog"},
              LastRead : {ZeroTime, 2},
              LastChecked : {ZeroTime, StartClock},
              Articles : {<<>>}] :
        ld.State \in {LinkIsNew, LinkNoFeedFound} =>
            ld.FeedUrl = "" /\ ld.LastRead = ZeroTime /\ ld.LastChecked = ZeroTime }

\* the stores Load can return
SavedStores ==
    UNION { { st \in [D -> UNION { SavedDetails(u) : u \in D }] :
                \A u \in D : st[u].BaseUrl = u } : D \in SUBSET BaseUrls }

\* the records CheckForUpdates can leave for the report loop
CheckedDetails(url) ==
    [BaseUrl : {url}, State : {LinkHasFeed}, FeedUrl : {"http://a/feed.xml"},
     LastError : {NilError}, Title : {"Blog"}, LastRead : ReadTimes,
     LastChecked : {StartClock}, Articles : ArticleLists]
    \cup
    [BaseUrl : {url}, State : {LinkTransientError}, FeedUrl : {"http://a/feed.xml"},
     LastError : {NilError, MkTransientError("findFeedUrl")}, Title : {"Blog"},
     LastRead : ReadTimes, LastChecked : {StartClock}, Articles : {<<>>}]

\* main just after Load, or just after CheckForUpdates on one link
InitStore ==
    /\ now = StartClock
    /\ sent = 0
    /\ linkIn = <<>>
    /\ closed = FALSE
    /\ acks = 0
    /\ got = 0
    /\ wpc = [w \in Workers |-> "exit"]
    /\ wld = [w \in Workers |-> ""]
    /\ wloc = [w \in Workers |-> NoLocals]
    /\ hist = [w \in Workers |-> NoHist]
    /\ checked = [u \in BaseUrls |-> 0]
    /\ crashed = FALSE
    /\ reported = <<>>
    /\ seen = {}
    /\ \/ /\ mainpc = "noting"
          /\ noted = <<>>
          /\ Links \in SavedStores
          /\ loaded = (Links /= <<>>)
       \/ /\ mainpc = "returned"
          /\ \E url \in SeqUrls :
                /\ noted = <<url>>
                /\ Links \in [{url} -> CheckedDetails(url)]
          /\ loaded \in BOOLEAN

NextStore ==
    \/ \E url \in BaseUrls, title \in StoreTitles : InterestedIn(url, title)
    \/ Report
    \/ SaveAndLoad

SpecStore == InitStore /\ [][NextStore]_vars

(***************************************************************************)
(* store.go: CheckForUpdates with more links noted than there are          *)
(* routines, under any schedule.  The links are ones checkLink has nothing *)
(* to do for, so that only the pool moves.  As in Next, a routine that     *)
(* waits on the closed and drained linkIn ends before another takes a step.*)
(***************************************************************************)
\* how many links are noted: none, fewer than there are routines, as many,
\* and more
BatchSizes == {0, 1, NumConcurrent, MaxBatch}

InitPool ==
    /\ now = StartClock
    /\ loaded = TRUE
    /\ mainpc = "noting"
    /\ sent = 0
    /\ linkIn = <<>>
    /\ closed = FALSE
    /\ acks = 0
    /\ got = 0
    /\ wpc = [w \in Workers |-> "exit"]
    /\ wld = [w \in Workers |-> ""]
    /\ wloc = [w \in Workers |-> NoLocals]
    /\ hist = [w \in Workers |-> NoHist]
    /\ checked = [u \in BaseUrls |-> 0]
    /\ crashed = FALSE
    /\ reported = <<>>
    /\ seen = {}
    /\ \E url \in SeqUrls :
          /\ Links = (url :> [NewLinkDetails(url, "Blog") EXCEPT !.State = LinkNoFeedFound])
          /\ noted \in { [i \in 1..n |-> url] : n \in BatchSizes }

NextPool ==
    \/ StartCheckForUpdates
    \/ FeedLink
    \/ CloseLinkIn
    \/ ReceiveAck
    \/ ReturnFromCheck
    \/ \E w \in Workers : WorkerReceive(w)
    \/ \E w \in Workers : WorkerExit(w)
    \/ ~CanExit /\ \E w \in Workers : CheckNothing(w)
    \/ ~CanExit /\ \E w \in Workers : Acknowledge(w)

SpecPool == InitPool /\ [][NextPool]_vars

(***************************************************************************)
(* The properties.                                                         *)
(***************************************************************************)
\* the record a routine has taken from linkIn
Rec(w) == Links[wld[w]]

\* the routine has come back from checkLink and is about to send its ack
Returned(w) == wpc[w] = "ack"

\* C1: every record in LinkHasFeed has a non-empty FeedUrl, after every
\* step of checkLink.
C1_HasFeedHasFeedUrl ==
    \A u \in DOMAIN Links : Links[u].State = LinkHasFeed => Links[u].FeedUrl /= ""

\* a step of checkForArticles that returns at the rate limit
RateLimited(w) == wpc[w] = "check" /\ wpc'[w] = "ack" /\ hist'[w].out = "skipped"

\* C2: a refresh that comes less than minCheckDuration after LastChecked
\* changes neither Articles nor LastChecked, and records no error.
C2_RateLimitedRefreshIsNoOp ==
    [][\A w \in Workers : RateLimited(w) =>
          /\ Links'[wld[w]].Articles = Rec(w).Articles
          /\ Links'[wld[w]].LastChecked = Rec(w).LastChecked
          /\ Links'[wld[w]].LastError = Rec(w).LastError]_vars

\* C2, amended: a refresh that comes less than minCheckDuration after
\* LastChecked empties Articles and changes nothing else of the record.
C2_RateLimitedRefreshEmptiesArticles ==
    [][\A w \in Workers : RateLimited(w) =>
          Links'[wld[w]] = [Rec(w) EXCEPT !.Articles = <<>>]]_vars

\* a rate-limited refresh has returned on a record that held articles
C2_Witness ==
    \E w \in Workers : Returned(w) /\ hist[w].out = "skipped" /\ hist[w].before /= <<>>

\* the records InterestedIn was called for in this run
Noted == { noted[i] : i \in DOMAIN noted }

\* C3: when CheckForUpdates returns, checkLink has run to its end exactly
\* once for every record that was noted.
C3_EveryNotedRecordCheckedOnce ==
    mainpc = "returned" => \A u \in Noted : checked[u] = 1

\* C4: no two routines are inside checkLink on the same record at the
\* same time.
C4_OneRoutinePerRecord ==
    \A v, w \in Workers : (v /= w /\ wld[v] /= "" /\ wld[w] /= "") => wld[v] /= wld[w]

\* C5: nothing that happens to a link ends the run: CheckForUpdates is never
\* cut short before it has returned.
C5_RunNeverCutShort == ~(crashed /\ mainpc /= "returned")

\* a step of checkForArticles whose request for the feed fails
FetchFails(w) == wpc[w] = "fetch" /\ wpc'[w] = "ack" /\ hist'[w].out = "fetch_failed"

\* C6: a record with a FeedUrl whose fetch fails ends the pass in
\* LinkTransientError with the FeedUrl kept; a record in LinkTransientError
\* resumes at LinkHasFeed if and only if its FeedUrl is non-empty, else at
\* LinkIsNew; a non-empty FeedUrl is never changed, discovery runs only on a
\* record without FeedUrl, and a pass that begins in LinkTransientError and
\* runs no discovery attempts the refresh.
C6_TransientErrorResumes ==
    [][/\ \A u \in DOMAIN Links :
             Links[u].FeedUrl /= "" => Links'[u].FeedUrl = Links[u].FeedUrl
       /\ \A w \in Workers :
             /\ FetchFails(w) =>
                   /\ Links'[wld[w]].State = LinkTransientError
                   /\ Links'[wld[w]].FeedUrl = Rec(w).FeedUrl
             /\ CheckTransientError(w) =>
                   Links'[wld[w]].State =
                       IF Rec(w).FeedUrl /= "" THEN LinkHasFeed ELSE LinkIsNew
             /\ (hist'[w].disc /\ ~hist[w].disc) => Rec(w).FeedUrl = ""
             /\ (Returned(w) /\ hist[w].entryState = LinkTransientError /\ ~hist[w].disc)
                   => hist[w].refr]_vars

\* a pass that began in LinkTransientError has gone back to LinkHasFeed and
\* refreshed the articles without discovery
C6_Witness ==
    \E w \in Workers :
       /\ Returned(w)
       /\ hist[w].entryState = LinkTransientError
       /\ ~hist[w].disc
       /\ hist[w].refr
       /\ Rec(w).FeedUrl /= ""
       /\ Rec(w).State = LinkHasFeed

\* C7: a refresh that fails with a parse error leaves Articles as it was
\* before the refresh began.
C7_ParseErrorKeepsArticles ==
    \A w \in Workers :
       (Returned(w) /\ hist[w].out = "parse_error") => Rec(w).Articles = hist[w].before

\* C7, amended: a refresh that fails with a parse error leaves Articles
\* empty, whatever it held before, and the record in LinkTransientError with
\* the error in LastError.
C7_ParseErrorEmptiesArticles ==
    \A w \in Workers :
       (Returned(w) /\ hist[w].out = "parse_error") =>
          /\ Rec(w).Articles = <<>>
          /\ Rec(w).State = LinkTransientError
          /\ Rec(w).LastError /= NilError

\* a refresh of a record that held articles has failed with a parse error
C7_Witness ==
    \E w \in Workers :
       Returned(w) /\ hist[w].out = "parse_error" /\ hist[w].before /= <<>>

\* C8: the publish times of Articles never decrease along the list.
C8_ArticlesInPubDateOrder ==
    \A u \in DOMAIN Links :
       \A i \in 1..(Len(Links[u].Articles) - 1) :
          Links[u].Articles[i].PubDate <= Links[u].Articles[i + 1].PubDate

\* a refresh has succeeded on a feed that listed its items out of order
C8_Witness ==
    \E w \in Workers :
       /\ Returned(w)
       /\ hist[w].out = "ok"
       /\ hist[w].moved
       /\ Len(Rec(w).Articles) > 1

\* the first pass of a later run over a record
FirstPassOfLaterRun(w) == Returned(w) /\ loaded /\ checked[wld[w]] = 0

\* C9: a record left in LinkNoFeedFound by an earlier run is treated as new
\* in the next run: discovery is attempted again.
C9_NoFeedFoundRetriedNextRun ==
    \A w \in Workers :
       (FirstPassOfLaterRun(w) /\ hist[w].entryState = LinkNoFeedFound) => hist[w].disc

\* C9, amended: a record in LinkNoFeedFound stays there, in the run that set
\* it and in every later run: checkLink runs neither discovery nor refresh
\* on it.
C9_NoFeedFoundStays ==
    \A w \in Workers :
       (Returned(w) /\ hist[w].entryState = LinkNoFeedFound) =>
          /\ ~hist[w].disc
          /\ ~hist[w].refr
          /\ Rec(w).State = LinkNoFeedFound

\* a later run has passed over a record an earlier run left in LinkNoFeedFound
C9_Witness ==
    \E w \in Workers : FirstPassOfLaterRun(w) /\ hist[w].entryState = LinkNoFeedFound

\* C10: when checkLink has returned, a record that is not in
\* LinkTransientError has no LastError.
C10_LastErrorOnlyInTransientError ==
    \A w \in Workers :
       (Returned(w) /\ Rec(w).State /= LinkTransientError) => Rec(w).LastError = NilError

\* C11: no step of checkLink puts a record into LinkIgnore (only the user's
\* edit of the saved store does), and checkLink on a record in LinkIgnore
\* runs neither discovery nor refresh and changes no field of the record.
C11_IgnoreIsAbsorbing ==
    [][/\ \A u \in DOMAIN Links :
             (Links'[u].State = LinkIgnore /\ Links[u].State /= LinkIgnore) => UserIgnores(u)
       /\ \A u \in DOMAIN Links :
             (Links[u].State = LinkIgnore /\ ~SaveAndLoad) => Links'[u] = Links[u]
       /\ \A w \in Workers :
             (Returned(w) /\ hist[w].entryState = LinkIgnore) =>
                 ~hist[w].disc /\ ~hist[w].refr /\ Rec(w).State = LinkIgnore]_vars

\* checkLink has returned from a record the user had marked LinkIgnore, and
\* which had a feed and a time of last check
C11_Witness ==
    \E w \in Workers :
       /\ Returned(w)
       /\ hist[w].entryState = LinkIgnore
       /\ Rec(w).FeedUrl /= ""
       /\ Rec(w).LastChecked /= ZeroTime

\* the publish times of the articles of a record
PubDates(ld) == { ld.Articles[i].PubDate : i \in DOMAIN ld.Articles }

\* C12: for every record the store can hold, UnreadArticles returns the
\* articles whose PubDate is strictly after LastRead, an article published
\* at LastRead excluded, in the order of Articles, and leaves the record as
\* it was.
C12_UnreadIsStrictlyAfterLastRead ==
    \A u \in DOMAIN Links :
       LET ld == Links[u]
           r == UnreadArticles(ld)
       IN  /\ r.rv = SelectSeq(ld.Articles, LAMBDA art : art.PubDate > ld.LastRead)
           /\ \A i \in DOMAIN r.rv : r.rv[i].PubDate /= ld.LastRead
           /\ r.ld = ld

\* the report loop has printed exactly the two articles published at T+1 and
\* T+2 of a record whose articles were published at T-1, T, T+1 and T+2
C12_Witness ==
    /\ mainpc = "reported"
    /\ Len(reported) = 1
    /\ \E u \in DOMAIN Links :
          /\ Len(Links[u].Articles) = 4
          /\ \A i \in 1..4 : Links[u].Articles[i].PubDate = i
          /\ reported[1].Unread = SubSeq(Links[u].Articles, 3, 4)

\* C13: for every record the store can hold, MarkAllAsRead changes nothing
\* but LastRead, never lowers it, leaves it alone when there is no article
\* or none newer than LastRead, sets it otherwise to the latest PubDate of
\* the Articles, and UnreadArticles returns the empty list just after.
C13_MarkAllAsReadAdvancesToLatest ==
    \A u \in DOMAIN Links :
       LET ld == Links[u]
           m == MarkAllAsRead(ld)
       IN  /\ m = [ld EXCEPT !.LastRead = m.LastRead]
           /\ m.LastRead >= ld.LastRead
           /\ IF \A t \in PubDates(ld) : t <= ld.LastRead
              THEN m.LastRead = ld.LastRead
              ELSE m.LastRead \in PubDates(ld) /\ \A t \in PubDates(ld) : t <= m.LastRead
           /\ UnreadArticles(m).rv = <<>>

\* the report loop has marked as read a record with articles older than,
\* at and after its LastRead: LastRead is now the latest PubDate
C13_Witness ==
    /\ mainpc = "reported"
    /\ Len(reported) = 1
    /\ \E u \in DOMAIN Links :
          /\ Len(Links[u].Articles) = 4
          /\ \A i \in 1..4 : Links[u].Articles[i].PubDate = i
          /\ Len(reported[1].Unread) = 2
          /\ Links[u].LastRead = 4
          /\ UnreadArticles(Links[u]).rv = <<>>

\* C14: a call of InterestedIn(url, title) on a url the store does not hold
\* adds a record in LinkIsNew with BaseUrl = url, no FeedUrl and no Articles,
\* and changes no other record; on a url the store holds it changes no
\* record at all.
C14_InterestedInFrame ==
    [][\A url \in BaseUrls :
          (mainpc = "noting" /\ noted' = Append(noted, url)) =>
             IF url \in DOMAIN Links
             THEN Links' = Links
             ELSE /\ DOMAIN Links' = DOMAIN Links \cup {url}
                  /\ Links'[url].State = LinkIsNew
                  /\ Links'[url].BaseUrl = url
                  /\ Links'[url].FeedUrl = ""
                  /\ Links'[url].Articles = <<>>
                  /\ \A v \in DOMAIN Links : Links'[v] = Links[v]]_vars

\* InterestedIn was called on a url whose record has a feed and was read and
\* checked before, and on a url that was new, next to it
C14_Witness ==
    /\ mainpc = "noting"
    /\ \E i, j \in DOMAIN noted :
          /\ noted[i] /= noted[j]
          /\ Links[noted[i]].State = LinkHasFeed
          /\ Links[noted[i]].FeedUrl /= ""
          /\ Links[noted[i]].LastRead /= ZeroTime
          /\ Links[noted[i]].LastChecked /= ZeroTime
          /\ Links[noted[j]].State = LinkIsNew
          /\ Links[noted[j]].Title = "News"

\* the routines that are inside checkLink
InCheckLink == { w \in Workers : wpc[w] \notin {"recv", "exit"} }

\* the records taken from linkIn and not yet acknowledged
BeingProcessed == sent - Len(linkIn) - acks - got

\* C15: at every moment of CheckForUpdates the records taken from the queue
\* and not yet acknowledged are those the routines inside checkLink hold,
\* and they are at most NumConcurrent = 8; a routine takes a record from the
\* queue only while it holds none and waits on the queue, and it gives up
\* its record only by the acknowledgement that follows the return of
\* checkLink.
C15_AtMostEightAndOneAtATime ==
    [][/\ BeingProcessed = Cardinality(InCheckLink)
       /\ BeingProcessed <= NumConcurrent
       /\ BeingProcessed' <= NumConcurrent
       /\ \A w \in Workers :
             /\ (w \notin InCheckLink /\ wpc'[w] \notin {"recv", "exit"}) =>
                    /\ wpc[w] = "recv" /\ wld[w] = "" /\ wpc'[w] = "check"
                    /\ linkIn /= <<>> /\ linkIn' = Tail(linkIn) /\ wld'[w] = Head(linkIn)
             /\ (wld[w] /= "" /\ wld'[w] /= wld[w]) =>
                    wpc[w] = "ack" /\ wld'[w] = "" /\ acks' = acks + 1
       /\ (linkIn /= <<>> /\ linkIn' = Tail(linkIn)) =>
             \E w \in Workers : wpc[w] = "recv" /\ wpc'[w] = "check"]_vars

\* all eight routines are inside checkLink while a ninth record waits in
\* the queue
C15_Witness ==
    /\ Cardinality(InCheckLink) = NumConcurrent
    /\ BeingProcessed = NumConcurrent
    /\ linkIn /= <<>>
    /\ Len(noted) > NumConcurrent

\* how far checkLink is from its return: the steps it can still take
Rank(w) ==
    CASE wpc[w] = "ack" -> 0
      [] wpc[w] = "abs" -> 1
      [] wpc[w] = "fetch" -> 2
      [] wpc[w] = "probe" -> 4 + Len(wloc[w].links)
      [] wpc[w] = "check" ->
            CASE Rec(w).State = LinkHasFeed -> 3
              [] Rec(w).State = LinkIsNew -> 5 + MaxTags
              [] Rec(w).State = LinkTransientError -> 6 + MaxTags
              [] OTHER -> 1
      [] OTHER -> 0

\* C16: every step of a call of checkLink brings it nearer to its return (so
\* the call ends when each request is answered); the switch is reached in
\* LinkIsNew only before any discovery of this call and in LinkHasFeed only
\* before any refresh; once the refresh has begun the call never comes back
\* to the switch, whatever the refresh does to the State.
C16_CheckLinkTerminatesOneDiscoveryOneRefresh ==
    [][\A w \in Workers :
          /\ (wld[w] /= "" /\ wld'[w] = wld[w] /\ ~crashed' /\
                 <<wpc[w], wloc[w], hist[w], Rec(w)>>' /= <<wpc[w], wloc[w], hist[w], Rec(w)>>)
                => Rank(w)' < Rank(w)
          /\ wpc'[w] = "check" =>
                /\ Rec(w)'.State = LinkIsNew => ~hist'[w].disc
                /\ Rec(w)'.State = LinkHasFeed => ~hist'[w].refr
                /\ Rec(w)'.State = LinkTransientError => ~hist'[w].disc /\ ~hist'[w].refr
          /\ hist'[w].refr => wpc'[w] \in {"fetch", "abs", "ack"}
          /\ (wld[w] /= "" /\ hist[w].refr /\ wld'[w] = wld[w]) => hist'[w].disc = hist[w].disc]_vars

\* a call that began in LinkTransientError, ran the discovery, then the
\* refresh, has returned after the refresh failed, the record being in
\* LinkTransientError again
C16_Witness ==
    \E w \in Workers :
       /\ Returned(w)
       /\ hist[w].entryState = LinkTransientError
       /\ hist[w].disc
       /\ hist[w].refr
       /\ hist[w].out \in {"fetch_failed", "parse_error", "abs_error"}
       /\ Rec(w).State = LinkTransientError

\* the answer for the base page was a connection error or a 5xx status
PageTransient(page) == page.err \/ (page.status >= 500 /\ page.status <= 599)

\* the answer for the base page was a status other than 200 and 5xx
PagePermanent(page) == ~page.err /\ page.status /= 200 /\ ~PageTransient(page)

\* the record is in LinkTransientError with a transient error in LastError
InTransientError(ld) ==
    ld.State = LinkTransientError /\ ld.LastError /= NilError /\ IsTransient(ld.LastError)

Absolute(base, rng) ==
    [i \in DOMAIN rng |-> [rng[i] EXCEPT !.Url = forceAbsolute(base, rng[i].Url).url]]

\* the step in which checkForArticles ends well
RefreshSucceeds(w) == wpc[w] = "abs" /\ wpc'[w] = "ack" /\ hist'[w].out = "ok"

ParseErrors ==
    { genericExtractArticle(item, item.entry).err : item \in Items } \ {NilError}

\* the errors forceAbsolute returns for the urls of the articles in rng
AbsoluteErrors(base, rng) ==
    { forceAbsolute(base, rng[i].Url).err : i \in DOMAIN rng } \ {NilError}

\* C19: a call of checkLink in which the parser failed, whatever it had
\* parsed before, or in which a url of an article could not be made
\* absolute, returns with no article in Articles, with that error in
\* LastError and with the record in LinkTransientError.
C19_FailedRefreshKeepsNothing ==
    \A w \in Workers :
       /\ (Returned(w) /\ hist[w].out = "parse_error") =>
             /\ Rec(w).Articles = <<>>
             /\ Rec(w).LastError \in ParseErrors
             /\ Rec(w).State = LinkTransientError
       /\ (Returned(w) /\ hist[w].out = "abs_error") =>
             /\ Rec(w).Articles = <<>>
             /\ Rec(w).LastError \in AbsoluteErrors(Rec(w).BaseUrl, wloc[w].rng)
             /\ Rec(w).State = LinkTransientError

\* the parser failed after it had appended an article, and the call has
\* returned
C19_Witness ==
    \E w \in Workers :
       /\ Returned(w)
       /\ hist[w].out = "parse_error"
       /\ hist[w].parsed > 0
       /\ Rec(w).Articles = <<>>

\* the step in which checkForArticles finds no parser for the first element
NoParser(w) == wpc[w] = "fetch" /\ wpc'[w] = "ack" /\ hist'[w].out = "no_parser"

\* C20: the step in which checkForArticles finds that the first element of
\* the feed is none of rss, feed and RDF changes no field of the record:
\* LastError and LastChecked are as before and State is LinkHasFeed; and
\* LastChecked is then at least minCheckDuration old, so that the rate
\* limit does not hold back the next call.
C20_UnrecognizedRootChangesNothing ==
    [][\A w \in Workers :
          NoParser(w) =>
             /\ Rec(w)' = Rec(w)
             /\ Rec(w)'.State = LinkHasFeed
             /\ now' - Rec(w)'.LastChecked >= minCheckDuration]_vars

\* a call has returned from a feed with an unrecognized first element, on
\* a record that was refreshed well before
C20_Witness ==
    \E w \in Workers :
       /\ Returned(w)
       /\ hist[w].out = "no_parser"
       /\ Rec(w).State = LinkHasFeed
       /\ Rec(w).LastChecked /= ZeroTime
       /\ Rec(w).LastError = NilError

\* C21: a call of checkLink whose discovery got, for the base page, a
\* status that is neither 200 nor 5xx returns with the description of the
\* failure in LastError.
C21_PermanentFailureInLastError ==
    \A w \in Workers :
       (Returned(w) /\ hist[w].disc /\ PagePermanent(hist[w].page)) =>
          Rec(w).LastError /= NilError

\* C22: when a call of checkLink that ran checkForArticles returns, Articles
\* of its record is the complete list parsed in this call, sorted and made
\* absolute, if checkForArticles ended well, and is empty if it did not
\* (rate limit, failed request, no first element, unrecognized first
\* element, parse error, url that cannot be made absolute).
C22_ArticlesEmptyOrOfThisRefresh ==
    \A w \in Workers :
       (Returned(w) /\ hist[w].refr) =>
          IF hist[w].out = "ok"
          THEN Rec(w).Articles = Absolute(Rec(w).BaseUrl, wloc[w].rng)
          ELSE Rec(w).Articles = <<>>

\* the step in which main runs its report loop
Reports == mainpc = "returned" /\ mainpc' = "reported"

\* C23: in every run after run, LastRead of a record is never lowered, and
\* the only step that changes it is the report loop of main, by
\* MarkAllAsRead; and no article the report loop prints was printed by the
\* report loop of an earlier run.
C23_LastReadMonotoneReportedOnce ==
    [][/\ \A u \in DOMAIN Links :
             /\ u \in DOMAIN Links'
             /\ Links'[u].LastRead >= Links[u].LastRead
             /\ Links'[u].LastRead /= Links[u].LastRead =>
                   Reports /\ Links'[u] = MarkAllAsRead(Links[u])
       /\ Reports => ArticlesIn(reported') \cap seen = {}
       /\ seen \subseteq seen']_vars

\* in a later run the report loop has printed a new article of a feed
\* that also holds an article printed in an earlier run, and not that one
C23_Witness ==
    /\ mainpc = "reported"
    /\ loaded
    /\ ArticlesIn(reported) /= {}
    /\ \E u \in DOMAIN Links :
          /\ \E i \in DOMAIN Links[u].Articles : Links[u].Articles[i] \in seen
          /\ \E i \in DOMAIN Links[u].Articles : Links[u].Articles[i] \in ArticlesIn(reported)
    /\ ArticlesIn(reported) \cap seen = {}

====
